---- MODULE Spec2Model ----
(***************************************************************************)
(* Model of cli.test (src/cli/test.py): discovery of test modules under a  *)
(* directory (AppTestLoader), execution of the resulting suite against an  *)
(* AppTestResult (AppTestCase.run, unittest.TestCase.run) and the report   *)
(* written by AppTestRunner.run.                                           *)
(*                                                                         *)
(* Strings of the program (file names, paths, attribute names) are         *)
(* sequences of one-character strings, so that startswith, endswith,       *)
(* os.path.splitext and string comparison are computed, not assumed.       *)
(***************************************************************************)
EXTENDS Integers, Sequences, FiniteSets, TLC

(***************************************************************************)
(* Bounds                                                                  *)
(***************************************************************************)
\* Largest number of test methods of the generated native class (GenTree).
MaxMethods == 2

(***************************************************************************)
(* Strings                                                                 *)
(***************************************************************************)
\* The characters used by the model, in ASCII order (the order cmp uses).
Alphabet ==
    << ".", "/", "M", "P", "S", "T", "_",
       "a", "b", "c", "d", "e", "f", "g", "h", "i", "j", "k", "l", "m",
       "n", "o", "p", "q", "r", "s", "t", "u", "v", "w", "x", "y", "z" >>

Ord(c) == CHOOSE i \in 1..Len(Alphabet) : Alphabet[i] = c

\* cmp(x, y) on two strings: -1, 0 or 1, lexicographic on character codes.
RECURSIVE StrCmpFrom(_, _, _)
StrCmpFrom(x, y, i) ==
    IF i > Len(x) /\ i > Len(y) THEN 0
    ELSE IF i > Len(x) THEN -1
    ELSE IF i > Len(y) THEN 1
    ELSE IF Ord(x[i]) < Ord(y[i]) THEN -1
    ELSE IF Ord(x[i]) > Ord(y[i]) THEN 1
    ELSE StrCmpFrom(x, y, i + 1)

StrCmp(x, y) == StrCmpFrom(x, y, 1)

IntCmp(a, b) == IF a < b THEN -1 ELSE IF a > b THEN 1 ELSE 0

\* str.startswith / str.endswith
StartsWith(s, p) ==
    /\ Len(p) <= Len(s)
    /\ SubSeq(s, 1, Len(p)) = p

EndsWith(s, p) ==
    /\ Len(p) <= Len(s)
    /\ SubSeq(s, Len(s) - Len(p) + 1, Len(s)) = p

\* str.rfind(ch) as a 1-based index, 0 when ch does not occur.
RFind(s, ch) ==
    LET hits == {i \in 1..Len(s) : s[i] = ch}
    IN  IF hits = {} THEN 0 ELSE CHOOSE i \in hits : \A j \in hits : j <= i

\* os.path.splitext: the extension starts at the last dot of the last path
\* component, unless only dots precede it in that component.
Splitext(p) ==
    LET sep == RFind(p, "/")
        dot == RFind(p, ".")
    IN  IF dot > sep /\ \E k \in (sep + 1)..(dot - 1) : p[k] # "."
        THEN [base |-> SubSeq(p, 1, dot - 1), ext |-> SubSeq(p, dot, Len(p))]
        ELSE [base |-> p, ext |-> << >>]

\* os.path.basename / os.path.dirname / os.path.join
Basename(p) == SubSeq(p, RFind(p, "/") + 1, Len(p))

Dirname(p) ==
    LET sep == RFind(p, "/")
    IN  IF sep <= 1 THEN SubSeq(p, 1, sep) ELSE SubSeq(p, 1, sep - 1)

Join(d, n) == d \o << "/" >> \o n

\* All orders in which the elements of a finite set can be listed.
Perms(S) ==
    {s \in [1..Cardinality(S) -> S] : \A x \in S : \E i \in DOMAIN s : s[i] = x}

RECURSIVE Concat(_)
Concat(ss) == IF ss = << >> THEN << >> ELSE Head(ss) \o Concat(Tail(ss))

(***************************************************************************)
(* Class attributes of AppTestLoader                                       *)
(***************************************************************************)
ignore_dirs == << "." >>
module_extension == << ".", "p", "y" >>
module_prefix == << "t", "e", "s", "t", "_" >>
module_suffix == << "_", "t", "e", "s", "t" >>
func_prefix == << "t", "e", "s", "t", "_" >>
class_prefix == << "T", "e", "s", "t" >>
testMethodPrefix == func_prefix

(***************************************************************************)
(* Python values of a 'disabled' attribute                                 *)
(***************************************************************************)
\* Absent: the object has no such attribute. None, booleans and strings are
\* the values an attribute can hold.
Absent == [tag |-> "absent", b |-> FALSE, s |-> ""]
None == [tag |-> "none", b |-> FALSE, s |-> ""]
PyBool(v) == [tag |-> "bool", b |-> v, s |-> ""]
PyStr(v) == [tag |-> "str", b |-> FALSE, s |-> v]

\* Truth value of a Python object, as 'if disabled:' tests it.
Truthy(v) ==
    CASE v.tag = "bool" -> v.b
      [] v.tag = "str" -> v.s # ""
      [] OTHER -> FALSE

\* getattr(obj, name, default), given the attribute's value or Absent.
GetAttr(attr, default) == IF attr.tag = "absent" THEN default ELSE attr

\* "%s" % value
PyFormat(v) ==
    CASE v.tag = "bool" -> (IF v.b THEN "True" ELSE "False")
      [] v.tag = "str" -> v.s
      [] OTHER -> "None"

(***************************************************************************)
(* The directory trees the loader is run on.  An entry is a directory or a *)
(* file of directory 'dir'; a file carries the objects its module defines  *)
(* (vars(module)): functions, native unittest.TestCase subclasses          *)
(* ("unittest") and other classes ("class"), each with the line it is      *)
(* defined on and the value of its 'disabled' attribute.  A line of 0      *)
(* stands for a callable inspect finds no source for; 'members' names what *)
(* a class defines besides its test methods and 'disabled'.                *)
(***************************************************************************)
Root == << "/", "r" >>

Dir(d, n) == [dir |-> d, name |-> n, isdir |-> TRUE, objs |-> {}]
File(d, n, objs) == [dir |-> d, name |-> n, isdir |-> FALSE, objs |-> objs]

Method(n, line, disabled) == [name |-> n, line |-> line, disabled |-> disabled]
Function(n, line, disabled) ==
    [kind |-> "function", name |-> n, line |-> line, disabled |-> disabled,
     methods |-> {}, members |-> {}]
ClassWith(kind, n, line, disabled, methods, members) ==
    [kind |-> kind, name |-> n, line |-> line, disabled |-> disabled,
     methods |-> methods, members |-> members]
Class(kind, n, line, disabled, methods) ==
    ClassWith(kind, n, line, disabled, methods, {})

\* A module-level statement that raises when the module is imported.
RaiseStatement(line) ==
    [kind |-> "raise", name |-> << >>, line |-> line, disabled |-> Absent,
     methods |-> {}, members |-> {}]

TestName(suffix) == func_prefix \o suffix
PyFile(base) == base \o module_extension

\* test_a.py (test_one on line 5, disabled with a reason; test_two on line
\* 10), zzz_test.py (test_three on line 3) and a file that is no module.
TreeScenario ==
    { File(Root, PyFile(TestName(<< "a" >>)),
           { Function(TestName(<< "o", "n", "e" >>), 5, PyStr("not ready")),
             Function(TestName(<< "t", "w", "o" >>), 10, Absent),
             Function(<< "h", "e", "l", "p" >>, 1, Absent) }),
      File(Root, PyFile(<< "z", "z", "z" >> \o module_suffix),
           { Function(TestName(<< "t", "h", "r", "e", "e" >>), 3, Absent) }),
      File(Root, << "n", "o", "t", "e", "s", ".", "t", "x", "t" >>, {}) }

\* A hidden directory and a plain one, each holding a test module; the
\* native class of the second carries a class-level 'disabled'.
HiddenDir == Join(Root, << ".", "h" >>)
SubDir == Join(Root, << "s" >>)

TreeHidden ==
    { Dir(Root, << ".", "h" >>),
      Dir(Root, << "s" >>),
      File(HiddenDir, PyFile(TestName(<< "h" >>)),
           { Function(TestName(<< "h" >>), 1, Absent) }),
      File(SubDir, PyFile(TestName(<< "s" >>)),
           { Class("unittest", << "S", "T", "e", "s", "t", "s" >>, 1, PyStr("off"),
                   { Method(TestName(<< "a" >>), 6, PyBool(FALSE)),
                     Method(TestName(<< "b" >>), 2, Absent),
                     Method(<< "u", "t", "i", "l" >>, 9, Absent) }) }) }

\* One module defining a bare function, a native class and a plain class,
\* and a class that matches no convention.
TreeMixed ==
    { File(Root, PyFile(TestName(<< "m" >>)),
           { Function(TestName(<< "f" >>), 1, Absent),
             Class("unittest", << "M", "c", "a", "s", "e" >>, 3, Absent,
                   { Method(TestName(<< "x" >>), 4, PyBool(TRUE)) }),
             Class("class", class_prefix \o << "P" >>, 8, Absent,
                   { Method(TestName(<< "p" >>), 9, PyStr("")) }),
             Class("class", << "P", "l", "a", "i", "n" >>, 20, Absent,
                   { Method(TestName(<< "o" >>), 21, Absent) }) }) }

\* A file with the module suffix but another extension, beside a module.
TreeExtension ==
    { File(Root, << "b" >> \o module_suffix \o << ".", "t", "x", "t" >>, {}),
      File(Root, PyFile(TestName(<< "a" >>)),
           { Function(TestName(<< "o", "n", "e" >>), 5, Absent) }) }

\* A module and, beside it, a file with the same base name and another
\* extension.
TreeTwin ==
    { File(Root, PyFile(<< "c" >> \o module_suffix),
           { Function(TestName(<< "c" >>), 1, Absent) }),
      File(Root, << "c" >> \o module_suffix \o << ".", "t", "x", "t" >>, {}) }

\* A module whose native class has n test methods, named so that their
\* alphabetical order is the reverse of their order in the file.
TreeGenerated(n) ==
    { File(Root, PyFile(TestName(<< "g" >>)),
           { Class("unittest", << "g", "c", "a", "s", "e" >>, 1, Absent,
                   { Method(TestName(<< Alphabet[Ord("a") + n - k] >>), 2 * k, Absent)
                       : k \in 1..n }) }) }

\* A native class that defines run, setUp and filename of its own, a plain
\* class with setup_method, a run of its own and a helper, and a plain class
\* with teardown_method.
TreeHooks ==
    { File(Root, PyFile(TestName(<< "k" >>)),
           { ClassWith("unittest", << "M", "r", "u", "n" >>, 1, Absent,
                       { Method(TestName(<< "n" >>), 2, Absent) },
                       {"run", "setUp", "filename"}),
             ClassWith("class", class_prefix \o << "S" >>, 5, Absent,
                       { Method(TestName(<< "s" >>), 7, Absent) },
                       {"setup_method", "run", "helper"}),
             ClassWith("class", class_prefix \o << "T" >>, 9, Absent,
                       { Method(TestName(<< "t" >>), 11, Absent) },
                       {"teardown_method"}) }) }

\* A module that raises while it is imported, beside one that does not.
TreeBroken ==
    { File(Root, PyFile(TestName(<< "a" >>)),
           { Function(TestName(<< "o", "n", "e" >>), 5, Absent) }),
      File(Root, PyFile(TestName(<< "b" >>)),
           { RaiseStatement(1),
             Function(TestName(<< "b" >>), 3, Absent) }) }

\* A module with a test function built at run time, which inspect finds no
\* source for, and an ordinary one.
TreeDynamic ==
    { File(Root, PyFile(TestName(<< "v" >>)),
           { Function(TestName(<< "v" >>), 0, Absent),
             Function(TestName(<< "w" >>), 2, Absent) }) }

\* A native class with one test method of that sort, disabled, and an
\* ordinary one.
TreeDynamicMethod ==
    { File(Root, PyFile(TestName(<< "d" >>)),
           { Class("unittest", << "M", "d", "y", "n" >>, 1, Absent,
                   { Method(TestName(<< "a" >>), 0, PyStr("off")),
                     Method(TestName(<< "b" >>), 3, Absent) }) }) }

\* A native class with two test methods of that sort.
TreeUnsortable ==
    { File(Root, PyFile(TestName(<< "u" >>)),
           { Class("unittest", << "M", "u", "n" >>, 1, Absent,
                   { Method(TestName(<< "a" >>), 0, Absent),
                     Method(TestName(<< "b" >>), 0, Absent) }) }) }

\* Two directories, each with a module test_x.py of its own.
TreeSameName ==
    { Dir(Root, << "s" >>),
      Dir(Root, << "t" >>),
      File(Join(Root, << "s" >>), PyFile(TestName(<< "x" >>)),
           { Function(TestName(<< "s" >>), 1, Absent) }),
      File(Join(Root, << "t" >>), PyFile(TestName(<< "x" >>)),
           { Function(TestName(<< "t" >>), 1, Absent) }) }

Trees ==
    { TreeScenario, TreeHidden, TreeMixed, TreeExtension, TreeTwin,
      TreeHooks, TreeBroken, TreeDynamic, TreeDynamicMethod, TreeUnsortable,
      TreeSameName }
        \cup { TreeGenerated(n) : n \in 1..MaxMethods }

\* os.listdir(d), as a set: the listing order is the file system's choice.
Subdirs(tree, d) == {e.name : e \in {x \in tree : x.dir = d /\ x.isdir}}
Files(tree, d) == {e.name : e \in {x \in tree : x.dir = d /\ ~x.isdir}}

(***************************************************************************)
(* AppTestLoader: adapters and ordering of test methods                    *)
(***************************************************************************)
\* A test-case class as the loader hands it to loadTestsFromTestCase: its
\* kind, __name__, class-level 'disabled' and its methods, each with the
\* file and line inspect resolves for it; 'attrs' says for each attribute
\* name whose value the class holds (the engine's or the user class's), and
\* 'setUp' and 'tearDown' name the function self.setUp() and self.tearDown()
\* end up calling.
CaseClass(kind, name, disabled, methods, attrs, setUp, tearDown) ==
    [kind |-> kind, name |-> name, disabled |-> disabled, methods |-> methods,
     attrs |-> attrs, setUp |-> setUp, tearDown |-> tearDown]

\* What inspect.getsourcefile returns where it finds no source file.
NoSource == << >>

\* inspect.getsourcefile / inspect.getsourcelines have a result for m.
HasSource(m) == m.line >= 1

MethodOf(path, m) ==
    [name |-> m.name, file |-> IF HasSource(m) THEN path ELSE NoSource,
     line |-> m.line, disabled |-> m.disabled]

\* The properties of AppTestCase, and the methods it overrides.
Properties ==
    {"testmethod", "lineno", "filename", "module", "classname", "methodname"}
overridden_methods == {"run"}

\* Names for which hasattr(<a subclass of AppTestCase>, name) holds before
\* anything is copied: those AppTestCase defines and those it inherits from
\* unittest.TestCase and object.
TypeAttrs ==
    Properties \cup overridden_methods \cup {"overridden_methods"}
        \cup {"setUp", "tearDown", "__init__", "__doc__", "__module__"}

FromEngine(names) == {[name |-> n, from |-> "engine"] : n \in names}
FromClass(names) == {[name |-> n, from |-> "class"] : n \in names}

\* unittest.TestCase.setUp / tearDown, which do nothing.
DefaultSetUp == "TestCase.setUp"
DefaultTearDown == "TestCase.tearDown"

\* FunctionTestCase with the function attached as a static method under its
\* own name; the synthetic class has no 'disabled' of its own.
loadTestCaseFromFunction(path, f) ==
    CaseClass("function", << >>, Absent, { MethodOf(path, f) },
              FromEngine(TypeAttrs), DefaultSetUp, DefaultTearDown)

\* The native class itself, with the properties and run of AppTestCase set
\* on it by setattr, whatever the class had under those names.
loadTestCaseFromUnittest(path, u) ==
    LET replaced == Properties \cup overridden_methods
    IN  CaseClass("unittest", u.name, u.disabled,
                  { MethodOf(path, m) : m \in u.methods },
                  FromEngine(replaced) \cup FromClass(u.members \ replaced),
                  DefaultSetUp, DefaultTearDown)

\* getattr(cls, name, None) for a member of the class; callable(value).
GetMember(c, name) == IF name \in c.members THEN name ELSE "None"
Callable(value) == value # "None"

\* Variant: every member of the plain class is copied.
loadTestCaseFromTestClassCopiesAll(path, c) ==
    CaseClass("class", c.name, c.disabled,
              { MethodOf(path, m) : m \in c.methods },
              FromEngine(TypeAttrs \ c.members) \cup FromClass(c.members),
              DefaultSetUp, DefaultTearDown)

\* PlainTestCase with the members of the plain class copied onto it where
\* it has no attribute of that name, setUp and tearDown wrapping the hooks
\* read from the class, and its __name__ set to the plain class's.
loadTestCaseFromTestClass(path, c) ==
    LET copied == {n \in c.members : n \notin TypeAttrs}
        setup_method == GetMember(c, "setup_method")
        teardown_method == GetMember(c, "setup_method")
    IN  CaseClass("class", c.name, c.disabled,
                  { MethodOf(path, m) : m \in c.methods },
                  FromEngine(TypeAttrs) \cup FromClass(copied),
                  IF Callable(setup_method) THEN setup_method ELSE DefaultSetUp,
                  IF Callable(teardown_method) THEN teardown_method
                  ELSE DefaultTearDown)

\* cmp of two methods of a class: by line when inspect.getsourcefile gives
\* the same file for both, by file name otherwise.
sort_methods(x, y) ==
    IF x.file = y.file THEN IntCmp(x.line, y.line) ELSE StrCmp(x.file, y.file)

\* dir(cls): attribute names in alphabetical order.
RECURSIVE SortedByName(_)
SortedByName(ms) ==
    IF ms = {} THEN << >>
    ELSE LET least == CHOOSE m \in ms : \A o \in ms : StrCmp(m.name, o.name) <= 0
         IN  << least >> \o SortedByName(ms \ {least})

\* list.sort(cmp) is stable: an element goes before the first element that
\* compares greater than it.
InsertSorted(sorted, x) ==
    LET later == {i \in 1..Len(sorted) : sort_methods(sorted[i], x) > 0}
        at == IF later = {} THEN Len(sorted) + 1
              ELSE CHOOSE i \in later : \A j \in later : i <= j
    IN  SubSeq(sorted, 1, at - 1) \o << x >> \o SubSeq(sorted, at, Len(sorted))

RECURSIVE SortWithCmp(_)
SortWithCmp(names) ==
    IF names = << >> THEN << >>
    ELSE InsertSorted(SortWithCmp(SubSeq(names, 1, Len(names) - 1)),
                      names[Len(names)])

IsTestMethod(m) == StartsWith(m.name, testMethodPrefix)

\* unittest.TestLoader.getTestCaseNames (the prefixed names of dir(cls)),
\* then sorted with sort_methods.
getTestCaseNames(cc) ==
    SortWithCmp(SelectSeq(SortedByName(cc.methods), IsTestMethod))

\* A Case: an instance of the case class for one test method.
MakeCase(cc, m) ==
    [kind |-> cc.kind, cls |-> cc.name, method |-> m.name,
     file |-> m.file, line |-> m.line,
     mdisabled |-> m.disabled, cdisabled |-> cc.disabled,
     attrs |-> cc.attrs, setUp |-> cc.setUp, tearDown |-> cc.tearDown]

\* unittest.TestLoader.loadTestsFromTestCase: one Case per name, in order.
loadTestsFromTestCase(cc) ==
    LET names == getTestCaseNames(cc)
    IN  [i \in 1..Len(names) |-> MakeCase(cc, names[i])]

IsFunctionObj(o) == StartsWith(o.name, func_prefix) /\ o.kind = "function"
IsUnittestObj(o) == o.kind = "unittest"
IsClassObj(o) == o.kind = "class" /\ StartsWith(o.name, class_prefix)

\* loadTestsFromModule for the module loaded from 'path', whose namespace
\* lists its objects in the order 'objects' (vars(module).items()).
loadTestsFromModule(path, objects) ==
    LET fs == SelectSeq(objects, IsFunctionObj)
        us == SelectSeq(objects, IsUnittestObj)
        cs == SelectSeq(objects, IsClassObj)
        functions == [i \in 1..Len(fs) |-> loadTestCaseFromFunction(path, fs[i])]
        unittests == [i \in 1..Len(us) |-> loadTestCaseFromUnittest(path, us[i])]
        classes == [i \in 1..Len(cs) |-> loadTestCaseFromTestClass(path, cs[i])]
        tests == unittests \o classes \o functions
    IN  Concat([i \in 1..Len(tests) |-> loadTestsFromTestCase(tests[i])])

\* The candidate test of loadTestsFromDirectory, on a file name.
IsCandidate(x) ==
    LET base == Splitext(x).base
        ext == Splitext(x).ext
    IN  \/ (ext = module_extension /\ StartsWith(base, module_prefix))
        \/ EndsWith(base, module_suffix)

IsIgnoredDir(x) == StartsWith(x, ignore_dirs)
NotIgnoredDir(x) == ~IsIgnoredDir(x)

(***************************************************************************)
(* AppTestResult and the run of one Case.  'env' threads what the methods  *)
(* change: the Result's fields, the lines given to app.log and the clock   *)
(* default_timer() reads (each reading advances it by one tick).  'trace'  *)
(* keeps, in the order they happen, startTest, every call made on a Case   *)
(* and every status line, each with the clock and the Result's start and   *)
(* stop at that moment.                                                    *)
(***************************************************************************)
NewResult ==
    [testsRun |-> 0, failures |-> << >>, errors |-> << >>, skipped |-> << >>,
     start |-> 0, stop |-> 0]

\* inspect.getmodulename(filename), then '.' and the class's __name__ when
\* the test method is bound to a class (a wrapped function is not).
classname(case) ==
    LET modname == Splitext(Basename(case.file)).base
    IN  IF case.kind = "function" THEN modname
        ELSE modname \o << "." >> \o case.cls

\* AppTestResult.time
time(r) == r.stop - r.start

\* AppTestResult.status_message: the fields of the formatted line.
status_message(env, test, status) ==
    [seconds |-> time(env.result), status |-> status, test |-> test.id,
     filename |-> test.case.file, lineno |-> test.case.line,
     classname |-> classname(test.case), methodname |-> test.case.method]

Event(env, id, what) ==
    [test |-> id, what |-> what, clock |-> env.clock,
     start |-> env.result.start, stop |-> env.result.stop]

Traced(env, id, what) == [env EXCEPT !.trace = Append(@, Event(env, id, what))]

Log(env, level, line) ==
    Traced([env EXCEPT !.log = Append(@, [level |-> level, line |-> line])],
           line.test, line.status)

\* self.start = default_timer() / self.stop = default_timer()
SetStart(env) ==
    [env EXCEPT !.result.start = env.clock, !.clock = @ + 1]

SetStop(env) ==
    [env EXCEPT !.result.stop = env.clock, !.clock = @ + 1]

\* unittest.TestResult.addFailure / addError: append (test, traceback).
TestResult_addFailure(env, test, err) ==
    [env EXCEPT !.result.failures = Append(@, [test |-> test.id, err |-> err])]

TestResult_addError(env, test, err) ==
    [env EXCEPT !.result.errors = Append(@, [test |-> test.id, err |-> err])]

startTest(env, test) ==
    SetStart(Traced([env EXCEPT !.result.testsRun = @ + 1], test.id, "startTest"))

stopTest(env, test) == env

addSuccess(env, test) ==
    LET stopped == SetStop(env)
    IN  Log(stopped, "info", status_message(stopped, test, "ok"))

\* Variant: a failure recorded in the error list.
addFailureAsError(env, test, err) ==
    LET recorded == TestResult_addError(SetStop(env), test, err)
    IN  Log(recorded, "warning", status_message(recorded, test, "fail"))

addFailure(env, test, err) ==
    LET recorded == TestResult_addFailure(SetStop(env), test, err)
    IN  Log(recorded, "warning", status_message(recorded, test, "fail"))

addError(env, test, err) ==
    LET recorded == TestResult_addFailure(SetStop(env), test, err)
    IN  Log(recorded, "error", status_message(recorded, test, "error"))

\* Variant: a skip also counted as a failure.
addSkipCountedFailed(env, test, message) ==
    LET logged == Log(env, "info", status_message(env, test, "skip"))
    IN  [logged EXCEPT
            !.result.skipped = Append(@, [test |-> test.id, message |-> message]),
            !.result.failures =
                Append(@, [test |-> test.id,
                           err |-> [exc |-> "Skipped", where |-> "run"]])]

addSkip(env, test, message) ==
    LET logged == Log(env, "info", status_message(env, test, "skip"))
    IN  [logged EXCEPT !.result.skipped =
            Append(@, [test |-> test.id, message |-> message])]

\* unittest.TestResult.wasSuccessful
wasSuccessful(r) == Len(r.failures) = 0 /\ Len(r.errors) = 0

\* What setUp, the test method and tearDown of a Case do when called: return
\* ("ok"), raise the failure exception ("fail") or raise another exception
\* ("error"); "none" where the call is never reached.
Behaviours ==
    { b \in [setUp : {"ok", "error"},
             body : {"none", "ok", "fail", "error"},
             tearDown : {"none", "ok", "error"}] :
        /\ (b.setUp = "ok") <=> (b.body # "none")
        /\ (b.body = "none") <=> (b.tearDown = "none") }

NotRun == [setUp |-> "none", body |-> "none", tearDown |-> "none"]

\* self._exc_info() as the traceback text: what was raised, and where.
ExcInfo(how, where) ==
    [exc |-> IF how = "fail" THEN "AssertionError" ELSE "Exception",
     where |-> where]

Called(env, test, what) ==
    Traced([env EXCEPT !.calls = Append(@, [test |-> test.id, what |-> what])],
           test.id, what)

\* self.setUp() / self.tearDown(): the method itself and, where the loader
\* installed a wrapper, the hook it calls with (self, self.testmethod).
CallSetUp(env, test) ==
    LET called == Called(env, test, "setUp")
    IN  IF test.case.setUp = DefaultSetUp THEN called
        ELSE Traced(called, test.id, test.case.setUp)

CallTearDown(env, test) ==
    LET called == Called(env, test, "tearDown")
    IN  IF test.case.tearDown = DefaultTearDown THEN called
        ELSE Traced(called, test.id, test.case.tearDown)

\* unittest.TestCase.run
TestCase_run(env, test, b) ==
    LET started == startTest(env, test)
        afterSetUp == CallSetUp(started, test)
        afterBody ==
            LET called == Called(afterSetUp, test, "body")
            IN  CASE b.body = "fail" ->
                       addFailure(called, test, ExcInfo(b.body, "body"))
                  [] b.body = "error" ->
                       addError(called, test, ExcInfo(b.body, "body"))
                  [] OTHER -> called
        afterTearDown ==
            LET called == CallTearDown(afterBody, test)
            IN  IF b.tearDown # "ok"
                THEN addError(called, test, ExcInfo(b.tearDown, "tearDown"))
                ELSE called
        ok == b.body = "ok" /\ b.tearDown = "ok"
    IN  IF b.setUp # "ok"
        THEN stopTest(addError(afterSetUp, test, ExcInfo(b.setUp, "setUp")), test)
        ELSE stopTest(IF ok THEN addSuccess(afterTearDown, test)
                            ELSE afterTearDown, test)

\* status_message reads test.lineno, and inspect.getsourcelines raises
\* IOError for a test method it finds no source for.
Located(case) == case.line >= 1

\* unittest.TestCase.run for a Case that is not Located: the first add*
\* method called raises in status_message, after it has read the clock and
\* recorded the traceback; the exception leaves run through stopTest.
TestCase_runRaises(env, test, b) ==
    LET started == startTest(env, test)
        afterSetUp == CallSetUp(started, test)
        afterBody == Called(afterSetUp, test, "body")
    IN  CASE b.setUp # "ok" ->
               TestResult_addFailure(SetStop(afterSetUp), test,
                                     ExcInfo(b.setUp, "setUp"))
          [] b.setUp = "ok" /\ b.body # "ok" ->
               TestResult_addFailure(SetStop(afterBody), test,
                                     ExcInfo(b.body, "body"))
          [] b.setUp = "ok" /\ b.body = "ok" /\ b.tearDown # "ok" ->
               TestResult_addFailure(SetStop(CallTearDown(afterBody, test)), test,
                                     ExcInfo(b.tearDown, "tearDown"))
          [] OTHER -> SetStop(CallTearDown(afterBody, test))

\* Variant: the Case's marker read before the test method's.
DisabledCaseFirst(case) == GetAttr(case.cdisabled, GetAttr(case.mdisabled, None))

\* The marker AppTestCase.run tests: the test method's 'disabled', else the
\* Case's, else None.
Disabled(case) == GetAttr(case.mdisabled, GetAttr(case.cdisabled, None))

\* Variant: the skip recorded, and the test run all the same.
AppTestCase_runNoElse(env, test, b) ==
    LET disabled == Disabled(test.case)
    IN  IF Truthy(disabled)
        THEN TestCase_run(addSkip(env, test, disabled), test, b)
        ELSE TestCase_run(env, test, b)

\* Variant: startTest called before the marker is tested.
AppTestCase_runStartFirst(env, test, b) ==
    LET disabled == Disabled(test.case)
    IN  IF Truthy(disabled)
        THEN addSkip(startTest(env, test), test, disabled)
        ELSE TestCase_run(env, test, b)

\* AppTestCase.run
AppTestCase_run(env, test, b) ==
    LET disabled == Disabled(test.case)
    IN  IF Truthy(disabled)
        THEN addSkip(env, test, disabled)
        ELSE TestCase_run(env, test, b)

\* AppTestCase.run for a Case that is not Located: addSkip raises in
\* status_message before it changes anything.
AppTestCase_runRaises(env, test, b) ==
    IF Truthy(Disabled(test.case)) THEN env ELSE TestCase_runRaises(env, test, b)

(***************************************************************************)
(* AppTestRunner.run: the report written to app.stderr                     *)
(***************************************************************************)
\* The separator and title that open a section.
Header(section) == [section |-> section, part |-> "header"]

SkippedEntry(cases, e) ==
    [section |-> "SKIPPED", part |-> "entry", test |-> e.test,
     classname |-> classname(cases[e.test]), methodname |-> cases[e.test].method,
     filename |-> cases[e.test].file, lineno |-> cases[e.test].line,
     reason |-> PyFormat(e.message)]

TraceEntry(section, cases, e) ==
    [section |-> section, part |-> "entry", test |-> e.test,
     filename |-> cases[e.test].file, lineno |-> cases[e.test].line,
     traceback |-> e.err]

SkippedSection(cases, r) ==
    IF r.skipped # << >>
    THEN << Header("SKIPPED") >>
            \o [i \in 1..Len(r.skipped) |-> SkippedEntry(cases, r.skipped[i])]
    ELSE << >>

ErrorsSection(cases, r) ==
    IF r.errors # << >>
    THEN << Header("ERRORS") >>
            \o [i \in 1..Len(r.errors) |-> TraceEntry("ERRORS", cases, r.errors[i])]
    ELSE << >>

FailuresSection(cases, r) ==
    IF r.failures # << >>
    THEN << Header("FAILURES") >>
            \o [i \in 1..Len(r.failures) |->
                    TraceEntry("FAILURES", cases, r.failures[i])]
    ELSE << >>

\* Variant: the report written only for an unsuccessful Result.
ReportIfFailed(cases, r) ==
    IF ~wasSuccessful(r)
    THEN SkippedSection(cases, r) \o ErrorsSection(cases, r)
            \o FailuresSection(cases, r)
    ELSE << >>

\* What AppTestRunner.run writes to app.stderr, in order.
Report(cases, r) ==
    IF ~wasSuccessful(r) \/ r.skipped # << >>
    THEN SkippedSection(cases, r) \o ErrorsSection(cases, r)
            \o FailuresSection(cases, r)
    ELSE << >>

\* What AppTestRunner.run gives to app.log once the suite has run.
Summary(r, elapsed) ==
    << [level |-> "info",
        line |-> [ran |-> r.testsRun, elapsed |-> elapsed]] >>
    \o IF ~wasSuccessful(r) \/ r.skipped # << >>
       THEN << [level |-> "error",
                line |-> [failed |-> Len(r.failures), errored |-> Len(r.errors),
                          skipped |-> Len(r.skipped)]] >>
       ELSE << >>

(***************************************************************************)
(* State                                                                   *)
(***************************************************************************)
VARIABLES
    tree,         \* the directory tree under the directory given to test()
    pc,           \* "discover", "run", "done"; "aborted" when discovery
                  \* raised, "crashed" when the run raised
    walk,         \* os.walk: the directories still to be yielded, next first
    visited,      \* the directories os.walk has yielded
    dirpath,      \* loadTestsFromDirectory: the directory being examined
    dirnames,     \* loadTestsFromDirectory: its local list of directory names
    candidates,   \* loadTestsFromDirectory: candidate files still to load
    considered,   \* the full paths of the candidates loaded so far
    sys_path,     \* sys.path entries inserted by loadTestsFromFile
    sys_modules,  \* sys.modules: the modules imported so far
    suite,        \* the Cases of the suite, flattened, in order
    idx,          \* TestSuite.run: position of the next Case
    result,       \* the AppTestResult
    clock,        \* the next value default_timer() returns
    timerStart,   \* timer(): its start reading
    log,          \* lines given to app.log (info, warning, error)
    calls,        \* the setUp / body / tearDown calls made, in order
    outcomes,     \* per Case run so far, what its calls did
    trace,        \* startTest, calls and status lines, in order
    stderr        \* what was written to app.stderr

vars ==
    << tree, pc, walk, visited, dirpath, dirnames, candidates, considered,
       sys_path, sys_modules, suite, idx, result, clock, timerStart, log,
       calls, outcomes, trace, stderr >>

loaderVars ==
    << walk, visited, dirpath, dirnames, candidates, considered, sys_path,
       sys_modules, suite >>

runnerVars ==
    << idx, result, clock, timerStart, log, calls, outcomes, trace, stderr >>

Init ==
    /\ tree \in Trees
    /\ pc = "discover"
    /\ walk = << Root >>
    /\ visited = << >>
    /\ dirpath = << >>
    /\ dirnames = << >>
    /\ candidates = << >>
    /\ considered = << >>
    /\ sys_path = << >>
    /\ sys_modules = {}
    /\ suite = << >>
    /\ idx = 1
    /\ result = NewResult
    /\ clock = 0
    /\ timerStart = 0
    /\ log = << >>
    /\ calls = << >>
    /\ outcomes = << >>
    /\ trace = << >>
    /\ stderr = << >>

(***************************************************************************)
(* loadTestsFromDirectory                                                  *)
(***************************************************************************)
\* One iteration of 'for dirpath, dirnames, filenames in os.walk(root)' up
\* to the candidate loop: os.walk lists the next directory, in the order
\* the file system gives, and will descend into the directories of its own
\* list; the loop body binds a filtered copy to its local name 'dirnames'
\* and selects the candidates.
WalkStep ==
    /\ pc = "discover"
    /\ candidates = << >>
    /\ walk # << >>
    /\ LET top == Head(walk)
       IN  \E dirs \in Perms(Subdirs(tree, top)), filenames \in Perms(Files(tree, top)) :
              /\ dirpath' = top
              /\ visited' = Append(visited, top)
              /\ dirnames' = SelectSeq(dirs, NotIgnoredDir)
              /\ candidates' = SelectSeq(filenames, IsCandidate)
              /\ walk' = [i \in 1..Len(dirs) |-> Join(top, dirs[i])] \o Tail(walk)
    /\ UNCHANGED << tree, pc, considered, sys_path, sys_modules, suite >>
    /\ UNCHANGED runnerVars

\* __import__(name): the module sys.modules already holds under that name,
\* else the first name.py found along sys.path; Absent when there is none
\* (ImportError).
Cached(name) == {m \in sys_modules : m.name = name}

FindModule(name, path) ==
    LET hits == {i \in 1..Len(path) : PyFile(name) \in Files(tree, path[i])}
    IN  IF hits = {} THEN << >>
        ELSE Join(path[CHOOSE i \in hits : \A j \in hits : i <= j], PyFile(name))

ObjectsAt(file) ==
    UNION {e.objs : e \in {x \in tree : ~x.isdir /\ Join(x.dir, x.name) = file}}

\* Executing the module at 'file' raises.
ImportRaises(file) == \E o \in ObjectsAt(file) : o.kind = "raise"

\* loadTestsFromModule raises for the module at 'file': sorting the test
\* methods of a class compares two that inspect finds no source file for,
\* and inspect.getsourcelines raises IOError.
SortRaises(file) ==
    \E o \in ObjectsAt(file) :
        /\ IsUnittestObj(o) \/ IsClassObj(o)
        /\ \E x, y \in o.methods :
              /\ x # y
              /\ IsTestMethod(x) /\ IsTestMethod(y)
              /\ ~HasSource(x) /\ ~HasSource(y)

\* loadTestsFromFile up to the import: the name and the directory put in
\* front of sys.path.
ModuleName(fullpath) == Splitext(Basename(fullpath)).base
PathWith(fullpath) == << Dirname(fullpath) >> \o sys_path

\* One iteration of 'for candidate in candidates': loadTestsFromFile and
\* suite.addTests, the import returning a module.
LoadCandidate ==
    /\ pc = "discover"
    /\ candidates # << >>
    /\ LET fullpath == Join(dirpath, Head(candidates))
           name == ModuleName(fullpath)
       IN  /\ considered' = Append(considered, fullpath)
           /\ sys_path' = PathWith(fullpath)
           /\ \/ /\ Cached(name) # {}
                 /\ LET module == CHOOSE m \in Cached(name) : TRUE
                    IN  suite' = suite \o loadTestsFromModule(module.file, module.objects)
                 /\ UNCHANGED sys_modules
              \/ /\ Cached(name) = {}
                 /\ FindModule(name, PathWith(fullpath)) # << >>
                 /\ ~ImportRaises(FindModule(name, PathWith(fullpath)))
                 /\ ~SortRaises(FindModule(name, PathWith(fullpath)))
                 /\ LET file == FindModule(name, PathWith(fullpath))
                    IN  \E objects \in Perms(ObjectsAt(file)) :
                          /\ sys_modules' = sys_modules \cup
                                {[name |-> name, file |-> file, objects |-> objects]}
                          /\ suite' = suite \o loadTestsFromModule(file, objects)
    /\ candidates' = Tail(candidates)
    /\ UNCHANGED << tree, pc, walk, visited, dirpath, dirnames >>
    /\ UNCHANGED runnerVars

\* Variant: an exception of loadTestsFromFile caught, the loop going on with
\* the next candidate.
LoadCandidateSwallows ==
    /\ pc = "discover"
    /\ candidates # << >>
    /\ LET fullpath == Join(dirpath, Head(candidates))
           name == ModuleName(fullpath)
           file == FindModule(name, PathWith(fullpath))
       IN  /\ Cached(name) = {}
           /\ file = << >> \/ ImportRaises(file) \/ SortRaises(file)
           /\ considered' = Append(considered, fullpath)
           /\ sys_path' = PathWith(fullpath)
    /\ candidates' = Tail(candidates)
    /\ UNCHANGED << tree, pc, walk, visited, dirpath, dirnames, sys_modules, suite >>
    /\ UNCHANGED runnerVars

\* The same iteration when loadTestsFromFile raises: no module of that
\* name is found (ImportError), the module raises while it is executed, or
\* loadTestsFromModule raises; a module that is imported stays in
\* sys.modules.  The exception leaves loadTestsFromDirectory and test().
LoadCandidateRaises ==
    /\ pc = "discover"
    /\ candidates # << >>
    /\ LET fullpath == Join(dirpath, Head(candidates))
           name == ModuleName(fullpath)
           file == FindModule(name, PathWith(fullpath))
       IN  /\ Cached(name) = {}
           /\ \/ /\ file = << >>
                 /\ UNCHANGED sys_modules
              \/ /\ file # << >>
                 /\ ImportRaises(file)
                 /\ UNCHANGED sys_modules
              \/ /\ file # << >>
                 /\ ~ImportRaises(file)
                 /\ SortRaises(file)
                 /\ \E objects \in Perms(ObjectsAt(file)) :
                       sys_modules' = sys_modules \cup
                           {[name |-> name, file |-> file, objects |-> objects]}
           /\ considered' = Append(considered, fullpath)
           /\ sys_path' = PathWith(fullpath)
    /\ pc' = "aborted"
    /\ UNCHANGED << tree, walk, visited, dirpath, dirnames, candidates, suite >>
    /\ UNCHANGED runnerVars

(***************************************************************************)
(* test() and AppTestRunner.run                                            *)
(***************************************************************************)
\* loadTestsFromDirectory returns its suite; test() adds it to its own and
\* calls runner.run, which creates the Result and starts the timer.
StartRun ==
    /\ pc = "discover"
    /\ candidates = << >>
    /\ walk = << >>
    /\ pc' = "run"
    /\ result' = NewResult
    /\ timerStart' = clock
    /\ clock' = clock + 1
    /\ UNCHANGED << tree, idx, log, calls, outcomes, trace, stderr >>
    /\ UNCHANGED loaderVars

Env ==
    [result |-> result, log |-> log, clock |-> clock, calls |-> calls,
     trace |-> trace]

Test(i) == [id |-> i, case |-> suite[i]]

\* Variant: the loop over the suite left at the first Case that fails.
RanStopOnFailure(env, b) ==
    /\ result' = env.result
    /\ log' = env.log
    /\ clock' = env.clock
    /\ calls' = env.calls
    /\ trace' = env.trace
    /\ outcomes' = Append(outcomes, b)
    /\ idx' = IF Len(env.result.failures) > Len(result.failures)
              THEN Len(suite) + 1 ELSE idx + 1
    /\ UNCHANGED << tree, pc, timerStart, stderr >>
    /\ UNCHANGED loaderVars

Ran(env, b) ==
    /\ result' = env.result
    /\ log' = env.log
    /\ clock' = env.clock
    /\ calls' = env.calls
    /\ trace' = env.trace
    /\ outcomes' = Append(outcomes, b)
    /\ idx' = idx + 1
    /\ UNCHANGED << tree, pc, timerStart, stderr >>
    /\ UNCHANGED loaderVars

\* One iteration of TestSuite.run over a Case that is disabled.
RunSkipped ==
    /\ pc = "run"
    /\ idx <= Len(suite)
    /\ Truthy(Disabled(suite[idx]))
    /\ Located(suite[idx])
    /\ Ran(AppTestCase_run(Env, Test(idx), NotRun), NotRun)

\* One iteration of TestSuite.run over a Case that is not disabled.
RunCase ==
    /\ pc = "run"
    /\ idx <= Len(suite)
    /\ ~Truthy(Disabled(suite[idx]))
    /\ Located(suite[idx])
    /\ \E b \in Behaviours : Ran(AppTestCase_run(Env, Test(idx), b), b)

\* One iteration of TestSuite.run over a Case that is not Located: the
\* exception raised while its status line is formatted leaves TestSuite.run,
\* AppTestRunner.run and test().
RunCaseRaises ==
    /\ pc = "run"
    /\ idx <= Len(suite)
    /\ ~Located(suite[idx])
    /\ \E b \in Behaviours :
          LET env == AppTestCase_runRaises(Env, Test(idx), b)
          IN  /\ result' = env.result
              /\ log' = env.log
              /\ clock' = env.clock
              /\ calls' = env.calls
              /\ trace' = env.trace
    /\ pc' = "crashed"
    /\ UNCHANGED << tree, idx, timerStart, outcomes, stderr >>
    /\ UNCHANGED loaderVars

\* The suite has run: the timer stops, the summary is logged and the report
\* is written.
RunnerReport ==
    /\ pc = "run"
    /\ idx > Len(suite)
    /\ clock' = clock + 1
    /\ log' = log \o Summary(result, clock - timerStart)
    /\ stderr' = stderr \o Report(suite, result)
    /\ pc' = "done"
    /\ UNCHANGED << tree, idx, result, timerStart, calls, outcomes, trace >>
    /\ UNCHANGED loaderVars

Next ==
    \/ WalkStep
    \/ LoadCandidate
    \/ LoadCandidateRaises
    \/ StartRun
    \/ RunSkipped
    \/ RunCase
    \/ RunCaseRaises
    \/ RunnerReport

Spec == Init /\ [][Next]_vars

(***************************************************************************)
(* Properties                                                              *)
(***************************************************************************)
\* The Cases TestSuite.run has gone through.
Done == 1..Len(outcomes)

Entries(list, i) == {k \in 1..Len(list) : list[k].test = i}
CallsOf(i) == SelectSeq(calls, LAMBDA c : c.test = i)

\* C1: a Case whose disabled marker is truthy never has setUp, its body or
\* tearDown called, and once the suite has passed it, it is in
\* result.skipped exactly once, with the marker's value as the reason.
C1_DisabledNeverRunsSkippedOnce ==
    \A i \in 1..Len(suite) :
        Truthy(Disabled(suite[i])) =>
            /\ CallsOf(i) = << >>
            /\ i \in Done =>
                /\ Cardinality(Entries(result.skipped, i)) = 1
                /\ \A k \in Entries(result.skipped, i) :
                      result.skipped[k].message = Disabled(suite[i])

C1_Witness ==
    /\ pc = "done"
    /\ \E i \in Done :
          /\ Truthy(Disabled(suite[i]))
          /\ Entries(result.skipped, i) # {}
    /\ \E i \in Done : CallsOf(i) # << >>

\* What a Case's calls did, by outcome.
Passed(b) == b.setUp = "ok" /\ b.body = "ok" /\ b.tearDown = "ok"
Errored(b) == b.setUp = "error" \/ b.body = "error" \/ b.tearDown = "error"
Failed(b) == b.body = "fail"

\* C2: wasSuccessful() is false iff the failure list or the error list is
\* non-empty, which is so iff some Case failed or errored: skipped Cases do
\* not count; a finished run with skips and no failure or error is
\* successful and still has its detail report written.
C2_SuccessIgnoresSkips ==
    /\ ~wasSuccessful(result) <=> (result.failures # << >> \/ result.errors # << >>)
    /\ pc # "crashed" =>
          (~wasSuccessful(result) <=>
              \E i \in Done : Failed(outcomes[i]) \/ Errored(outcomes[i]))
    /\ (/\ pc = "done"
        /\ result.skipped # << >>
        /\ \A i \in Done : outcomes[i] = NotRun \/ Passed(outcomes[i]))
       => (wasSuccessful(result) /\ stderr # << >>)

C2_Witness ==
    /\ pc = "done"
    /\ result.skipped # << >>
    /\ \E i \in Done : Passed(outcomes[i])
    /\ wasSuccessful(result)
    /\ stderr # << >>

\* loadTestsFromDirectory has returned its suite.
Returned == pc \in {"run", "done", "crashed"}

\* C3: in the returned suite, two Cases from the same source file are in
\* non-decreasing order of line number.
C3_SameFileByLine ==
    Returned =>
        \A i, j \in 1..Len(suite) :
            (i < j /\ suite[i].file = suite[j].file)
                => suite[i].line <= suite[j].line

\* C4: in the returned suite, two Cases from different source files are in
\* ascending string order of their file paths.
C4_FilesAscending ==
    Returned =>
        \A i, j \in 1..Len(suite) :
            (i < j /\ suite[i].file # suite[j].file)
                => StrCmp(suite[i].file, suite[j].file) < 0

\* C5: a Case whose setUp, body or tearDown raises an exception other than
\* the failure exception has an entry in result.errors, has none in
\* result.failures unless its body also failed, and is listed in the ERRORS
\* section of the report.
C5_ErrorsInErrorList ==
    \A i \in Done :
        Errored(outcomes[i]) =>
            /\ Entries(result.errors, i) # {}
            /\ ~Failed(outcomes[i]) => Entries(result.failures, i) = {}
            /\ pc = "done" =>
                  \E k \in 1..Len(stderr) :
                      /\ stderr[k].section = "ERRORS"
                      /\ stderr[k].part = "entry"
                      /\ stderr[k].test = i

ReportEntries(section, i) ==
    {k \in 1..Len(stderr) :
        /\ stderr[k].section = section
        /\ stderr[k].part = "entry"
        /\ stderr[k].test = i}

FailedOnly(b) == b.setUp = "ok" /\ b.body = "fail" /\ b.tearDown = "ok"

\* C6: a Case whose body raises the failure exception, setUp and tearDown
\* returning, has exactly one entry in result.failures and none in
\* result.errors; wasSuccessful() is then false, and the report has a
\* FAILURES entry and no ERRORS entry for it.
C6_FailureRecordedOnce ==
    \A i \in Done :
        FailedOnly(outcomes[i]) =>
            /\ Cardinality(Entries(result.failures, i)) = 1
            /\ Entries(result.errors, i) = {}
            /\ ~wasSuccessful(result)
            /\ pc = "done" =>
                  /\ Cardinality(ReportEntries("FAILURES", i)) = 1
                  /\ ReportEntries("ERRORS", i) = {}

C6_Witness ==
    /\ pc = "done"
    /\ \E i \in Done :
          /\ FailedOnly(outcomes[i])
          /\ ReportEntries("FAILURES", i) # {}

Sections == << "SKIPPED", "ERRORS", "FAILURES" >>
SectionRank(section) == CHOOSE k \in 1..Len(Sections) : Sections[k] = section
Headers(section) ==
    {k \in 1..Len(stderr) : stderr[k].section = section /\ stderr[k].part = "header"}
ListOf(section) ==
    CASE section = "SKIPPED" -> result.skipped
      [] section = "ERRORS" -> result.errors
      [] section = "FAILURES" -> result.failures

\* C7: nothing is written to stderr before the run ends; the report is then
\* written iff the Result is not successful or a Case was skipped; a section
\* is written (once, its header first, one entry per element of its list)
\* iff its list is non-empty; sections come in the order Skipped, Errors,
\* Failures.
C7_ReportSections ==
    /\ pc # "done" => stderr = << >>
    /\ pc = "done" =>
          /\ stderr # << >> <=> (~wasSuccessful(result) \/ result.skipped # << >>)
          /\ \A k \in 1..Len(Sections) :
                /\ Cardinality(Headers(Sections[k])) =
                      (IF ListOf(Sections[k]) # << >> THEN 1 ELSE 0)
                /\ Cardinality({e \in 1..Len(stderr) :
                        stderr[e].section = Sections[k] /\ stderr[e].part = "entry"})
                      = Len(ListOf(Sections[k]))
          /\ \A p, q \in 1..Len(stderr) :
                p < q =>
                    /\ SectionRank(stderr[p].section) <= SectionRank(stderr[q].section)
                    /\ stderr[q].part = "header" =>
                          stderr[p].section # stderr[q].section

C7_Witness ==
    /\ pc = "done"
    /\ Headers("SKIPPED") # {}
    /\ Headers("FAILURES") # {}
    /\ \E i \in Done : Errored(outcomes[i])

\* A directory path one of whose components below the root starts with the
\* ignore prefix.
UnderIgnoredDir(d) ==
    \E i \in (Len(Root) + 1)..Len(d) :
        /\ d[i] = "/"
        /\ StartsWith(SubSeq(d, i + 1, Len(d)), ignore_dirs)

\* C8: the walk never enters a directory whose name starts with the ignore
\* prefix: no such directory is examined, no file under one is loaded as a
\* candidate, and no Case of the suite comes from one.
C8_IgnoredDirsPruned ==
    /\ \A k \in 1..Len(visited) : ~UnderIgnoredDir(visited[k])
    /\ \A k \in 1..Len(considered) : ~UnderIgnoredDir(Dirname(considered[k]))
    /\ \A i \in 1..Len(suite) : ~UnderIgnoredDir(Dirname(suite[i].file))

\* The files of the directory being examined that the loop treats as
\* candidates: those already loaded and those still to load.
TreatedAsCandidate(x) ==
    \/ \E k \in 1..Len(candidates) : candidates[k] = x
    \/ \E k \in 1..Len(considered) : considered[k] = Join(dirpath, x)

\* C9: a file of an examined directory is a candidate iff its extension is
\* the module extension and its base name starts with the module prefix or
\* ends with the module suffix.
C9_CandidateIffModuleName ==
    visited # << >> =>
        \A x \in Files(tree, dirpath) :
            TreatedAsCandidate(x) <=>
                /\ Splitext(x).ext = module_extension
                /\ \/ StartsWith(Splitext(x).base, module_prefix)
                   \/ EndsWith(Splitext(x).base, module_suffix)

\* The calls unittest.TestCase.run makes for a Case, given what they do.
Protocol(i) ==
    IF outcomes[i].setUp = "ok"
    THEN << [test |-> i, what |-> "setUp"], [test |-> i, what |-> "body"],
            [test |-> i, what |-> "tearDown"] >>
    ELSE << [test |-> i, what |-> "setUp"] >>

\* C10: the marker tested on entry to run() is the test method's 'disabled'
\* when the method has one, the Case's otherwise; the Case is skipped iff
\* that marker is truthy, and is otherwise run through setUp, body and
\* tearDown.
C10_MethodMarkerFirst ==
    \A i \in Done :
        LET selected == IF suite[i].mdisabled.tag # "absent"
                        THEN suite[i].mdisabled
                        ELSE suite[i].cdisabled
        IN  /\ Entries(result.skipped, i) # {} <=> Truthy(selected)
            /\ Truthy(selected) => CallsOf(i) = << >>
            /\ ~Truthy(selected) => CallsOf(i) = Protocol(i)

C10_Witness ==
    /\ pc = "done"
    /\ \E i, j \in Done :
          /\ suite[i].mdisabled.tag = "absent"
          /\ Truthy(suite[i].cdisabled)
          /\ Entries(result.skipped, i) # {}
          /\ suite[j].mdisabled.tag # "absent"
          /\ Truthy(suite[j].cdisabled)
          /\ CallsOf(j) # << >>


\* The class or function of the tree a Case was made from.
Defined == UNION {e.objs : e \in {x \in tree : ~x.isdir}}
SourceOf(case) ==
    CHOOSE o \in Defined :
        /\ o.kind = case.kind
        /\ IF case.kind = "function" THEN o.name = case.method
           ELSE o.name = case.cls

EventsOf(i) == SelectSeq(trace, LAMBDA e : e.test = i)
Whats(events) == [k \in 1..Len(events) |-> events[k].what]

\* C11: a Case of a native class is skipped without anything being called
\* when it is disabled; otherwise, when the class defined a run method of
\* its own, that method is called for the Case ("run" in the trace); and
\* every member the class defined other than run and the attached
\* properties is still the class's own.
C11_NativeRunDelegates ==
    \A i \in Done :
        suite[i].kind = "unittest" =>
            /\ Truthy(Disabled(suite[i])) => Whats(EventsOf(i)) = << "skip" >>
            /\ (~Truthy(Disabled(suite[i])) /\ "run" \in SourceOf(suite[i]).members)
                  => \E k \in 1..Len(trace) :
                        trace[k].test = i /\ trace[k].what = "run"
            /\ \A n \in SourceOf(suite[i]).members \ (Properties \cup {"run"}) :
                  [name |-> n, from |-> "class"] \in suite[i].attrs

\* The calls made on a Case, hooks included, in order.
IsCall(e) == e.what \notin {"startTest", "ok", "fail", "error", "skip"}
CallsAndHooks(i) == Whats(SelectSeq(EventsOf(i), IsCall))

Optional(cond, what) == IF cond THEN << what >> ELSE << >>

\* C12: for a Case of a plain class that is not skipped, setUp calls the
\* class's setup_method when it defines one and nothing otherwise, before
\* the body, and tearDown calls the class's teardown_method when it defines
\* one and nothing otherwise, after the body.
C12_HooksMapped ==
    \A i \in Done :
        (suite[i].kind = "class" /\ outcomes[i] # NotRun) =>
            LET members == SourceOf(suite[i]).members
            IN  CallsAndHooks(i) =
                    << "setUp" >>
                    \o Optional("setup_method" \in members, "setup_method")
                    \o IF outcomes[i].setUp = "ok"
                       THEN << "body", "tearDown" >>
                            \o Optional("teardown_method" \in members,
                                        "teardown_method")
                       ELSE << >>

\* C13: on the Case type made for a plain class, a member of the class is
\* the class's own only when the type had no attribute of that name; a
\* member named like a capability of the engine (run, filename, lineno,
\* classname, methodname) is dropped and the capability keeps the engine's
\* value; every other member is copied.
C13_CollidingMembersDropped ==
    Returned =>
        \A i \in 1..Len(suite) :
            suite[i].kind = "class" =>
                \A n \in SourceOf(suite[i]).members :
                    /\ [name |-> n, from |-> "class"] \in suite[i].attrs
                          <=> n \notin TypeAttrs
                    /\ n \in {"run", "filename", "lineno", "classname", "methodname"}
                          => /\ [name |-> n, from |-> "engine"] \in suite[i].attrs
                             /\ [name |-> n, from |-> "class"] \notin suite[i].attrs

C13_Witness ==
    /\ Returned
    /\ \E i \in 1..Len(suite) :
          /\ suite[i].kind = "class"
          /\ "run" \in SourceOf(suite[i]).members
          /\ "helper" \in SourceOf(suite[i]).members
          /\ [name |-> "run", from |-> "engine"] \in suite[i].attrs
          /\ [name |-> "helper", from |-> "class"] \in suite[i].attrs

\* The status lines logged for a Case, in order.
IsReport(e) == e.what \in {"ok", "fail", "error", "skip"}
ReportsOf(i) == Whats(SelectSeq(EventsOf(i), IsReport))

\* Everything that happens for a Case happens before anything happens for
\* a later one.
OneAtATime ==
    \A k, l \in 1..Len(trace) : k < l => trace[k].test <= trace[l].test

NoCallTwice(i) ==
    \A k, l \in 1..Len(CallsOf(i)) :
        CallsOf(i)[k].what = CallsOf(i)[l].what => k = l

\* The status lines unittest.TestCase.run produces for what the calls did.
ExpectedReports(b) ==
    IF b.setUp # "ok" THEN << "error" >>
    ELSE Optional(b.body # "ok", b.body)
         \o Optional(b.tearDown # "ok", "error")
         \o Optional(b.body = "ok" /\ b.tearDown = "ok", "ok")

\* C14, with exactly one report per Case: every Case the suite has gone through has exactly one
\* report (one status line: skip, ok, fail or error), made before anything
\* happens for the next Case, and none of its calls is made twice.
C14_ReportedExactlyOnce ==
    /\ OneAtATime
    /\ \A i \in Done :
          /\ Len(ReportsOf(i)) = 1
          /\ NoCallTwice(i)

\* C14, with the reports of unittest.TestCase.run: every Case the suite has gone through is reported before
\* anything happens for the next Case and none of its calls is made twice;
\* a skipped Case has the one report skip, a Case that ran has the reports
\* of unittest.TestCase.run: one, except that a Case whose body raised and
\* whose tearDown raised too has two, the second an error.
C14_ReportedBeforeNext ==
    /\ OneAtATime
    /\ \A i \in Done :
          /\ NoCallTwice(i)
          /\ ReportsOf(i) = IF outcomes[i] = NotRun THEN << "skip" >>
                            ELSE ExpectedReports(outcomes[i])
          /\ Len(ReportsOf(i)) = 2
                <=> (outcomes[i].body \in {"fail", "error"}
                        /\ outcomes[i].tearDown = "error")
          /\ Len(ReportsOf(i)) \in {1, 2}

C14_Witness ==
    \E i \in Done :
        /\ i + 1 \in Done
        /\ outcomes[i].body = "error"
        /\ outcomes[i].tearDown = "error"
        /\ ReportsOf(i) = << "error", "error" >>
        /\ outcomes[i + 1] # NotRun

\* C15: the suite is gone through one Case at a time, in its order, each
\* Case reported before anything happens for the next, whatever the Cases
\* before it did; when AppTestRunner.run has returned, every Case of the
\* suite has either run (startTest and setUp were called for it) or been
\* skipped.
C15_RunGoesThroughWholeSuite ==
    /\ OneAtATime
    /\ \A i \in Done : ReportsOf(i) # << >>
    /\ pc = "run" => (idx = Len(outcomes) + 1 /\ idx <= Len(suite) + 1)
    /\ pc = "done" =>
          /\ Len(outcomes) = Len(suite)
          /\ \A i \in 1..Len(suite) :
                \/ /\ ReportsOf(i) = << "skip" >>
                   /\ CallsOf(i) = << >>
                \/ /\ "skip" \notin {ReportsOf(i)[k] : k \in 1..Len(ReportsOf(i))}
                   /\ Len(EventsOf(i)) >= 2
                   /\ EventsOf(i)[1].what = "startTest"
                   /\ EventsOf(i)[2].what = "setUp"

C15_Witness ==
    /\ pc = "done"
    /\ \E i \in Done :
          /\ i + 1 \in Done
          /\ Failed(outcomes[i]) \/ Errored(outcomes[i])
          /\ Passed(outcomes[i + 1])

\* The module a candidate was loaded as, where its import did not raise.
LoadedWithoutRaising(fullpath) ==
    \E m \in sys_modules :
        /\ m.name = ModuleName(fullpath)
        /\ ~ImportRaises(m.file)
        /\ ~SortRaises(m.file)

\* C16: when loading a candidate raises, discovery is aborted and nothing
\* is run: no Result call, no call on a Case, no log line, no report; and
\* a suite is returned (and run) only when every candidate considered was
\* loaded without raising, with no directory or candidate left.
C16_ImportErrorAbortsAll ==
    /\ pc = "aborted" =>
          /\ trace = << >> /\ calls = << >> /\ outcomes = << >>
          /\ log = << >> /\ stderr = << >>
          /\ result = NewResult /\ idx = 1
    /\ (Returned \/ trace # << >>) =>
          /\ \A k \in 1..Len(considered) : LoadedWithoutRaising(considered[k])
          /\ candidates = << >> /\ walk = << >>

C16_Witness ==
    /\ pc = "aborted"
    /\ suite # << >>
    /\ ImportRaises(considered[Len(considered)])
    /\ trace = << >>

\* C17: every Case of a returned suite has a source file and a line: a test
\* callable inspect resolves no file or line for is never registered.
C17_UnresolvedNeverRegistered ==
    Returned =>
        \A i \in 1..Len(suite) :
            suite[i].file # NoSource /\ suite[i].line >= 1

IsStatusLine(l) == "status" \in DOMAIN l.line
StatusLines == SelectSeq(log, IsStatusLine)
ReportEvents == SelectSeq(trace, IsReport)

\* C18: the seconds of every status line are stop - start, with both read
\* for the Case of the line: after the runner started its timer, after
\* everything that happened for earlier Cases, and stop not before start.
C18_ElapsedOfSameCase ==
    /\ Len(StatusLines) = Len(ReportEvents)
    /\ \A j \in 1..Len(ReportEvents) :
          LET e == ReportEvents[j]
          IN  /\ StatusLines[j].line.test = e.test
              /\ StatusLines[j].line.seconds = e.stop - e.start
              /\ e.stop >= e.start
              /\ e.start > timerStart
              /\ \A k \in 1..Len(trace) :
                    trace[k].test < e.test => e.start >= trace[k].clock

Started == {k \in 1..Len(trace) : trace[k].what = "startTest"}
IsRanLine(l) == "ran" \in DOMAIN l.line

\* C19: result.testsRun is the number of Cases startTest was called for,
\* and startTest is never called for a skipped Case; while the run goes on
\* testsRun + len(skipped) is the number of Cases gone through, and when it
\* has returned this is the number of Cases of the suite and the 'Ran N
\* tests' line shows testsRun, the skipped Cases not counted.
C19_TestsRunCountsStarted ==
    /\ result.testsRun = Cardinality(Started)
    /\ \A k \in Started : "skip" \notin {ReportsOf(trace[k].test)[j] :
                                            j \in 1..Len(ReportsOf(trace[k].test))}
    /\ pc \in {"run", "done"} =>
          /\ result.testsRun = Cardinality({i \in Done : outcomes[i] # NotRun})
          /\ result.testsRun + Len(result.skipped) = Len(outcomes)
    /\ pc = "done" =>
          /\ result.testsRun + Len(result.skipped) = Len(suite)
          /\ Len(SelectSeq(log, IsRanLine)) = 1
          /\ \A k \in 1..Len(log) :
                IsRanLine(log[k]) =>
                    log[k].line.ran = Len(suite) - Len(result.skipped)

C19_Witness ==
    /\ pc = "done"
    /\ result.skipped # << >>
    /\ result.testsRun >= 1
    /\ result.testsRun < Len(suite)
    /\ \E k \in 1..Len(log) :
          IsRanLine(log[k]) /\ log[k].line.ran = result.testsRun

IsModuleFile(p) == Splitext(Basename(p)).ext = module_extension

\* The Cases the tests defined in the file p should give: per test function
\* and per test method of a class the loader takes, its kind, class name
\* and method name.
CasesDefinedIn(p) ==
    { << "function", << >>, o.name >> : o \in {x \in ObjectsAt(p) : IsFunctionObj(x)} }
    \cup UNION { { << o.kind, o.name, m.name >> : m \in {x \in o.methods : IsTestMethod(x)} }
                 : o \in {x \in ObjectsAt(p) : IsUnittestObj(x) \/ IsClassObj(x)} }

CasesLike(c) ==
    {i \in 1..Len(suite) : << suite[i].kind, suite[i].cls, suite[i].method >> = c}

\* C20: in a returned suite, every candidate module file was imported as
\* itself (the module obtained under its name is the one of that file) and
\* contributes each Case defined in it exactly once.
C20_EachFileItsOwnCases ==
    Returned =>
        \A k \in 1..Len(considered) :
            IsModuleFile(considered[k]) =>
                /\ \E m \in sys_modules :
                      m.name = ModuleName(considered[k]) /\ m.file = considered[k]
                /\ \A c \in CasesDefinedIn(considered[k]) :
                      Cardinality(CasesLike(c)) = 1

====
